---- MODULE Spec2Model ----
(***************************************************************************)
(* Model of ImageOCR (src/src/parsers/image_ocr.py): one synchronous call  *)
(* of convert_img_to_txt at a time: decode -> classify -> one of the three *)
(* category handlers, with the two try/except blocks of the method.        *)
(*                                                                         *)
(* Strings are sequences of symbols.  A Python value is a record           *)
(* [kind, str]: kind "str" carries a string, kind "none" is None, and kind *)
(* "raise" is the outcome of a call that raised an Exception.              *)
(***************************************************************************)
EXTENDS Naturals, Sequences, FiniteSets

VARIABLES
    pc,                 \* position of the current call
    encode_image,       \* argument of convert_img_to_txt
    binary_image,       \* "unset" | "bytes": base64.b64decode succeeded
    image_type,         \* "unset" | "None" | label returned by _classificate_image
    classifier_outputs, \* list the zero-shot pipeline returned (<<>> when none)
    classifier_outcome, \* "unset" | "ok" | "raise": how the pipeline call ended
    ocr_result,         \* ocr_result[0] of the last OCR call
    generated_text,     \* text decoded from the formula model
    response_text,      \* response.text of the captioning call
    handler_outcome,    \* "unset" | "ok" | "raise": how the handler call ended
    result,             \* what the call handed to its caller
    trace               \* collaborators invoked by the current call, in order

vars == <<pc, encode_image, binary_image, image_type, classifier_outputs,
          classifier_outcome, ocr_result, generated_text, response_text,
          handler_outcome, result, trace>>

(***************************************************************************)
(* Bounds of the model.                                                    *)
(***************************************************************************)
MaxScore == 1   \* classifier scores range over 0..MaxScore
MaxFrags == 2   \* OCR fragments per image
MaxLen == 2     \* free symbols in a generated formula text

(***************************************************************************)
(* Python values.                                                          *)
(***************************************************************************)
NoneValue == [kind |-> "none", str |-> <<>>]
Str(s) == [kind |-> "str", str |-> s]
Raised == [kind |-> "raise", str |-> <<>>]

RECURSIVE SeqsUpTo(_, _)
SeqsUpTo(S, n) ==
    IF n = 0 THEN {<<>>}
    ELSE LET shorter == SeqsUpTo(S, n - 1)
         IN shorter \cup {Append(s, c) : s \in shorter, c \in S}

(***************************************************************************)
(* utils/constants.py                                                      *)
(***************************************************************************)
IMAGE_CATEGORY ==
    [Graph   |-> <<"a picture including curve graph",
                   "a picture including linear graph",
                   "a picture including bar graph">>,
     Formula |-> <<"equilibrium expression for a chemical",
                   "formula including fraction or symbols">>,
     Text    |-> <<"a formula including Korean",
                   "a sentence including Hangul",
                   "a photo including Hangul",
                   "a sentence including English">>]

Range(s) == {s[i] : i \in 1..Len(s)}

\* list(chain(*IMAGE_CATEGORY.values())): dict order is insertion order
candidate_labels ==
    IMAGE_CATEGORY.Graph \o IMAGE_CATEGORY.Formula \o IMAGE_CATEGORY.Text

(***************************************************************************)
(* The zero-shot-image-classification pipeline: given one score per        *)
(* candidate (scores[i] for candidate_labels[i]) it returns the            *)
(* {score, label} records sorted by decreasing score, the sort being       *)
(* stable (transformers: sorted(zip(scores, candidate_labels),             *)
(* key=lambda x: -x[0])).                                                  *)
(***************************************************************************)
Rank(scores, i) ==
    1 + Cardinality({j \in DOMAIN scores :
                        \/ scores[j] > scores[i]
                        \/ scores[j] = scores[i] /\ j < i})

image_classifier(scores) ==
    [k \in DOMAIN scores |->
        LET i == CHOOSE j \in DOMAIN scores : Rank(scores, j) = k
        IN [score |-> scores[i], label |-> candidate_labels[i]]]

\* max(outputs, key=lambda x: x["score"]): the running best is replaced only
\* by a strictly greater element, so the first maximal element is returned
RECURSIVE MaxFrom(_, _, _)
MaxFrom(outputs, i, best) ==
    IF i > Len(outputs) THEN best
    ELSE IF outputs[i].score > best.score
         THEN MaxFrom(outputs, i + 1, outputs[i])
         ELSE MaxFrom(outputs, i + 1, best)

\* a max that lets a later equal element replace the running best
max_last(outputs) ==
    outputs[CHOOSE i \in DOMAIN outputs :
                \A j \in DOMAIN outputs :
                    /\ outputs[j].score <= outputs[i].score
                    /\ (j > i => outputs[j].score < outputs[i].score)]

max(outputs) == MaxFrom(outputs, 2, outputs[1])

\* _classificate_image: the label of the best output, or None (the method
\* falls off its except clause) when the pipeline raised
_classificate_image(outcome) ==
    IF outcome.kind = "raise" THEN "None"
    ELSE max(outcome.outputs).label

ScoreVectors == [1..Len(candidate_labels) -> 0..MaxScore]

ClassifierOutcomes ==
    {[kind |-> "raise", outputs |-> <<>>]}
    \cup {[kind |-> "ok", outputs |-> image_classifier(sc)] : sc \in ScoreVectors}

(***************************************************************************)
(* _convert_text_to_latex.  The symbols of a generated text: the three     *)
(* literal pieces of the prompt echo are single symbols, between which the *)
(* pattern allows \s*; the other symbols are single characters.            *)
(***************************************************************************)
USER == "User:"
EXTRACT == "Extract mathematical expressions in LaTeX format"
ASSISTANT == "Assistant: 0>0>500>500>"
SP == " "
NL == "\n"
BSL == "\\"
Whitespace == {SP, NL}

\* the position after the longest run of whitespace starting at i (\s*)
RECURSIVE SkipWs(_, _)
SkipWs(t, i) ==
    IF i <= Len(t) /\ t[i] \in Whitespace THEN SkipWs(t, i + 1) ELSE i

\* r"User:\s*Extract mathematical expressions in LaTeX format\s*Assistant: 0>0>500>500>"
\* matched at position i: the position after the match, or 0 when none
MatchPrompt(t, i) ==
    IF i > Len(t) \/ t[i] # USER THEN 0
    ELSE LET j == SkipWs(t, i + 1)
         IN IF j > Len(t) \/ t[j] # EXTRACT THEN 0
            ELSE LET k == SkipWs(t, j + 1)
                 IN IF k > Len(t) \/ t[k] # ASSISTANT THEN 0 ELSE k + 1

\* re.sub(pattern, "", text): leftmost non-overlapping matches are deleted
RECURSIVE SubPrompt(_, _)
SubPrompt(t, i) ==
    IF i > Len(t) THEN <<>>
    ELSE LET e == MatchPrompt(t, i)
         IN IF e > 0 THEN SubPrompt(t, e)
            ELSE <<t[i]>> \o SubPrompt(t, i + 1)

Artifact == <<BSL, ",", SP, ".">>

\* r"\\, \.$" matched at position i: the four characters, then the end of the
\* string or a newline that ends the string
MatchArtifact(t, i) ==
    /\ i + 3 <= Len(t)
    /\ SubSeq(t, i, i + 3) = Artifact
    /\ \/ i + 3 = Len(t)
       \/ i + 4 = Len(t) /\ t[i + 4] = NL

RECURSIVE SubArtifact(_, _)
SubArtifact(t, i) ==
    IF i > Len(t) THEN <<>>
    ELSE IF MatchArtifact(t, i) THEN SubArtifact(t, i + 4)
         ELSE <<t[i]>> \o SubArtifact(t, i + 1)

\* a clean-up that forgets the second substitution
convert_keeping_artifact(text) == <<"$">> \o SubPrompt(text, 1) \o <<"$">>

\* a clean-up that forgets the closing dollar sign
convert_unclosed(text) == <<"$">> \o SubArtifact(SubPrompt(text, 1), 1)

_convert_text_to_latex(text) ==
    <<"$">> \o SubArtifact(SubPrompt(text, 1), 1) \o <<"$">>

PromptEcho == <<USER, SP, EXTRACT, SP, ASSISTANT>>

TextSymbols == {USER, EXTRACT, ASSISTANT, SP, NL, BSL, ",", ".", "$", "x"}

\* texts the formula model may generate: an optional prompt echo, a free
\* middle part, an optional trailing artifact
GeneratedTexts ==
    {pre \o mid \o post :
        pre \in {<<>>, PromptEcho, <<USER, EXTRACT, ASSISTANT>>},
        mid \in SeqsUpTo(TextSymbols, MaxLen) \cup {<<"x", "=", "1">>},
        post \in {<<>>, Artifact, Artifact \o <<NL>>}}

(***************************************************************************)
(* extract_text: " ".join(text for _, (text, _) in ocr_result[0]).  An OCR *)
(* fragment is [box, (text, confidence)].                                  *)
(***************************************************************************)
RECURSIVE Join(_, _)
Join(sep, xs) ==
    IF xs = <<>> THEN <<>>
    ELSE IF Len(xs) = 1 THEN xs[1]
         ELSE xs[1] \o sep \o Join(sep, Tail(xs))

\* a join that forgets the separator
extract_text_unseparated(fragments) ==
    Join(<<>>, [i \in DOMAIN fragments |-> fragments[i].text])

extract_text(fragments) ==
    Join(<<SP>>, [i \in DOMAIN fragments |-> fragments[i].text])

FragmentTexts == {<<>>, <<"a">>, <<"b">>, <<"a", SP, "b">>}

Fragments == {[box |-> "box", text |-> t, conf |-> "conf"] : t \in FragmentTexts}

OcrResults == SeqsUpTo(Fragments, MaxFrags)

Captions == {<<>>, <<"A">>, <<"c">>}

(***************************************************************************)
(* convert_img_to_txt                                                      *)
(***************************************************************************)
ValidEncodings == {<<"A">>, <<"A", "B">>}
Malformed == {<<>>, <<"%">>}
EncodedInputs == ValidEncodings \cup Malformed

\* base64.b64decode and Image.open(...).convert("RGB") both succeed
Decodes(e) == e \in ValidEncodings

Pending == [kind |-> "pending", str |-> <<>>]

\* first except clause reporting the failure as the input itself
load_failure_as_input(e) == Str(e)

\* lines 59-61: log and return (None)
load_failure(e) == NoneValue

\* a first except clause without its return
after_load_fallthrough(ok) == "classify"

\* where the call continues after the first try block
after_load(ok) == IF ok THEN "classify" ELSE "done"

\* a dispatch whose default is the formula extractor
branch_formula_default(label) ==
    IF label \in Range(IMAGE_CATEGORY.Text) THEN "extract_text"
    ELSE IF label \in Range(IMAGE_CATEGORY.Graph) THEN "get_caption_with_gemini"
    ELSE "_extract_formula_from_image"

\* lines 66-71: the if / elif / else on image_type
branch(label) ==
    IF label \in Range(IMAGE_CATEGORY.Text) THEN "extract_text"
    ELSE IF label \in Range(IMAGE_CATEGORY.Formula) THEN "_extract_formula_from_image"
    ELSE "get_caption_with_gemini"

\* a second except clause that returns nothing
except_returns_none(out, e) == IF out.kind = "raise" THEN NoneValue ELSE out

\* no second except clause: the exception leaves the method
except_absent(out, e) == out

\* lines 63, 73-74: an exception of the second try block becomes encode_image
except_clause(out, e) == IF out.kind = "raise" THEN Str(e) ELSE out

Init ==
    /\ pc = "idle"
    /\ encode_image = <<>>
    /\ binary_image = "unset"
    /\ image_type = "unset"
    /\ classifier_outputs = <<>>
    /\ classifier_outcome = "unset"
    /\ ocr_result = <<>>
    /\ generated_text = <<>>
    /\ response_text = <<>>
    /\ handler_outcome = "unset"
    /\ result = Pending
    /\ trace = <<>>

\* the caller invokes convert_img_to_txt(e)
Call(e) ==
    /\ pc = "idle"
    /\ pc' = "decode"
    /\ encode_image' = e
    /\ UNCHANGED <<binary_image, image_type, classifier_outputs,
                   classifier_outcome, ocr_result, generated_text,
                   response_text, handler_outcome, result, trace>>

\* lines 55-58: the image loads
LoadImage ==
    /\ pc = "decode"
    /\ Decodes(encode_image)
    /\ binary_image' = "bytes"
    /\ trace' = Append(trace, "decode")
    /\ pc' = after_load(TRUE)
    /\ UNCHANGED <<encode_image, image_type, classifier_outputs,
                   classifier_outcome, ocr_result, generated_text,
                   response_text, handler_outcome, result>>

\* lines 55-61: decoding or loading raises
LoadImageFails ==
    /\ pc = "decode"
    /\ ~Decodes(encode_image)
    /\ trace' = Append(trace, "decode")
    /\ result' = load_failure(encode_image)
    /\ pc' = after_load(FALSE)
    /\ UNCHANGED <<encode_image, binary_image, image_type, classifier_outputs,
                   classifier_outcome, ocr_result, generated_text,
                   response_text, handler_outcome>>

\* line 64: image_type = self._classificate_image(image)
Classify ==
    /\ pc = "classify"
    /\ \E outcome \in ClassifierOutcomes :
        /\ classifier_outcome' = outcome.kind
        /\ classifier_outputs' = outcome.outputs
        /\ image_type' = _classificate_image(outcome)
    /\ trace' = Append(trace, "_classificate_image")
    /\ pc' = "classified"
    /\ UNCHANGED <<encode_image, binary_image, ocr_result, generated_text,
                   response_text, handler_outcome, result>>

\* lines 66-71: _classificate_image has returned, its locals are gone, and
\* the if / elif / else selects the handler
Dispatch ==
    /\ pc = "classified"
    /\ pc' = branch(image_type)
    /\ classifier_outputs' = <<>>
    /\ UNCHANGED <<encode_image, binary_image, image_type, classifier_outcome,
                   ocr_result, generated_text, response_text, handler_outcome,
                   result, trace>>

\* line 67: return self.extract_text(binary_image)
ExtractText ==
    /\ pc = "extract_text"
    /\ trace' = Append(trace, "extract_text")
    /\ \/ \E fragments \in OcrResults :
            /\ handler_outcome' = "ok"
            /\ ocr_result' = fragments
            /\ result' = except_clause(Str(extract_text(fragments)), encode_image)
       \/ /\ handler_outcome' = "raise"
          /\ ocr_result' = <<>>
          /\ result' = except_clause(Raised, encode_image)
    /\ pc' = "done"
    /\ UNCHANGED <<encode_image, binary_image, image_type, classifier_outputs,
                   classifier_outcome, generated_text, response_text>>

\* line 69: return fr"{self._extract_formula_from_image(image)}"
ExtractFormula ==
    /\ pc = "_extract_formula_from_image"
    /\ trace' = Append(trace, "_extract_formula_from_image")
    /\ \/ \E text \in GeneratedTexts :
            /\ handler_outcome' = "ok"
            /\ generated_text' = text
            /\ result' = except_clause(Str(_convert_text_to_latex(text)),
                                       encode_image)
       \/ /\ handler_outcome' = "raise"
          /\ generated_text' = <<>>
          /\ result' = except_clause(Raised, encode_image)
    /\ pc' = "done"
    /\ UNCHANGED <<encode_image, binary_image, image_type, classifier_outputs,
                   classifier_outcome, ocr_result, response_text>>

\* line 71: return self.get_caption_with_gemini(binary_image)
Caption ==
    /\ pc = "get_caption_with_gemini"
    /\ trace' = Append(trace, "get_caption_with_gemini")
    /\ \/ \E text \in Captions :
            /\ handler_outcome' = "ok"
            /\ response_text' = text
            /\ result' = except_clause(Str(text), encode_image)
       \/ /\ handler_outcome' = "raise"
          /\ response_text' = <<>>
          /\ result' = except_clause(Raised, encode_image)
    /\ pc' = "done"
    /\ UNCHANGED <<encode_image, binary_image, image_type, classifier_outputs,
                   classifier_outcome, ocr_result, generated_text>>

\* the call is over; nothing of it persists
Return ==
    /\ pc = "done"
    /\ pc' = "idle"
    /\ encode_image' = <<>>
    /\ binary_image' = "unset"
    /\ image_type' = "unset"
    /\ classifier_outputs' = <<>>
    /\ classifier_outcome' = "unset"
    /\ ocr_result' = <<>>
    /\ generated_text' = <<>>
    /\ response_text' = <<>>
    /\ handler_outcome' = "unset"
    /\ result' = Pending
    /\ trace' = <<>>

Next ==
    \/ \E e \in EncodedInputs : Call(e)
    \/ LoadImage
    \/ LoadImageFails
    \/ Classify
    \/ Dispatch
    \/ ExtractText
    \/ ExtractFormula
    \/ Caption
    \/ Return

Spec == Init /\ [][Next]_vars

(***************************************************************************)
(* Properties                                                              *)
(***************************************************************************)
Last(s) == s[Len(s)]

TextLabels == Range(IMAGE_CATEGORY.Text)
FormulaLabels == Range(IMAGE_CATEGORY.Formula)
GraphLabels == Range(IMAGE_CATEGORY.Graph)
Handlers == {"extract_text", "_extract_formula_from_image",
             "get_caption_with_gemini"}

\* C1: when the selected category handler raises, convert_img_to_txt returns
\* the original encoded input unchanged and no exception leaves the call,
\* whatever the label was.
C1_HandlerFailureReturnsInput ==
    (pc = "done" /\ handler_outcome = "raise")
        => /\ result = Str(encode_image)
           /\ Last(trace) \in Handlers

C1_Witness ==
    /\ pc = "done"
    /\ handler_outcome = "raise"
    /\ Last(trace) = "_extract_formula_from_image"
    /\ encode_image = <<"A", "B">>
    /\ result = Str(<<"A", "B">>)

\* C2: when the classifier collaborator raises inside _classificate_image,
\* convert_img_to_txt returns the original encoded input and not the output
\* of an extraction or captioning handler.
C2_ClassifierFailureReturnsInput ==
    (pc = "done" /\ classifier_outcome = "raise")
        => /\ result = Str(encode_image)
           /\ handler_outcome # "ok"

\* C3: when decoding or loading fails the call returns None, which is no
\* string (neither the empty string nor the input), and neither the
\* classifier nor a handler has been invoked.
C3_LoadFailureReturnsNone ==
    (pc = "done" /\ ~Decodes(encode_image))
        => /\ result = NoneValue
           /\ result # Str(<<>>)
           /\ result # Str(encode_image)
           /\ trace = <<"decode">>
           /\ classifier_outcome = "unset"
           /\ handler_outcome = "unset"

C3_Witness ==
    /\ pc = "done"
    /\ encode_image = <<"%">>
    /\ result = NoneValue
    /\ trace = <<"decode">>

\* C4: whatever the input and whatever each collaborator did (returned or
\* raised, in decode, classification or a handler), the call ends by
\* returning a value: no exception reaches the caller.
C4_NoExceptionReachesCaller ==
    pc = "done" => result.kind \in {"str", "none"}

C4_Witness ==
    /\ pc = "done"
    /\ classifier_outcome = "raise"
    /\ handler_outcome = "raise"
    /\ result.kind = "str"

\* the position before the i-th fragment's text in the joined string
RECURSIVE Offset(_, _)
Offset(fragments, i) ==
    IF i = 1 THEN 0
    ELSE Offset(fragments, i - 1) + Len(fragments[i - 1].text) + 1

\* C5: for a label of category Text and any sequence of OCR fragments (the
\* empty one included) the call returns the fragments' texts in the order
\* returned, separated by single spaces; only the text extractor ran.
C5_TextLabelReturnsJoinedFragments ==
    (pc = "done" /\ image_type \in TextLabels /\ handler_outcome = "ok")
        => LET n == Len(ocr_result)
               s == result.str
           IN /\ result.kind = "str"
              /\ trace = <<"decode", "_classificate_image", "extract_text">>
              /\ n = 0 => s = <<>>
              /\ n > 0 => Len(s) = Offset(ocr_result, n) + Len(ocr_result[n].text)
              /\ \A i \in 1..n :
                    LET o == Offset(ocr_result, i)
                        t == ocr_result[i].text
                    IN /\ SubSeq(s, o + 1, o + Len(t)) = t
                       /\ i < n => s[o + Len(t) + 1] = SP

C5_Witness ==
    /\ pc = "done"
    /\ image_type = "a sentence including Hangul"
    /\ handler_outcome = "ok"
    /\ Len(ocr_result) = 2
    /\ ocr_result[1].text = <<"b">>
    /\ ocr_result[2].text = <<"a", SP, "b">>
    /\ result = Str(<<"b", SP, "a", SP, "b">>)

FormulaReturned ==
    pc = "done" /\ image_type \in FormulaLabels /\ handler_outcome = "ok"

\* a generated text no substitution can touch
Untouched(t) == USER \notin Range(t) /\ "." \notin Range(t)

C7_DefaultIsCaptioner ==
    /\ \A l \in Range(candidate_labels) :
          Cardinality({c \in DOMAIN IMAGE_CATEGORY :
                          l \in Range(IMAGE_CATEGORY[c])}) = 1
    /\ (pc = "done" /\ image_type # "unset")
          => /\ Len(trace) = 3
             /\ image_type \in TextLabels <=> trace[3] = "extract_text"
             /\ image_type \in FormulaLabels
                    <=> trace[3] = "_extract_formula_from_image"
             /\ image_type \notin (TextLabels \cup FormulaLabels)
                    <=> trace[3] = "get_caption_with_gemini"
             /\ (image_type \notin (TextLabels \cup FormulaLabels)
                    /\ handler_outcome = "ok") => result = Str(response_text)

C7_Witness ==
    /\ pc = "done"
    /\ image_type = "a picture including bar graph"
    /\ handler_outcome = "ok"
    /\ response_text = <<"c">>
    /\ result = Str(<<"c">>)

\* what is left of t without a prompt echo at its start and an artifact at
\* its end
WithoutEcho(t) ==
    IF Len(t) >= 5 /\ SubSeq(t, 1, 5) = PromptEcho
    THEN SubSeq(t, 6, Len(t)) ELSE t
WithoutArtifact(t) ==
    IF Len(t) >= 4 /\ SubSeq(t, Len(t) - 3, Len(t)) = Artifact
    THEN SubSeq(t, 1, Len(t) - 4) ELSE t

ScoreOf(l) ==
    classifier_outputs[CHOOSE k \in DOMAIN classifier_outputs :
                            classifier_outputs[k].label = l].score

IsPrefix(s, t) == Len(s) <= Len(t) /\ SubSeq(t, 1, Len(s)) = s

\* C10: a call is the chain decode -> classify -> one handler: the
\* classifier runs at most once and only after the image loaded, at most one
\* handler runs and only after the classifier call ended, and nothing runs
\* again once a handler has returned or failed.
C10_CallChain ==
    /\ \E h \in Handlers : IsPrefix(trace, <<"decode", "_classificate_image", h>>)
    /\ Len(trace) >= 2 => binary_image = "bytes"
    /\ Len(trace) >= 3 => classifier_outcome # "unset"
    /\ handler_outcome # "unset" => (pc = "done" /\ Len(trace) = 3)
    /\ pc = "done" => (result # Pending /\ Len(trace) \in {1, 3})

C10_Witness ==
    /\ pc = "done"
    /\ trace = <<"decode", "_classificate_image", "get_caption_with_gemini">>
    /\ handler_outcome = "raise"

====
